---------------------------- MODULE Spec2Model ----------------------------
(***************************************************************************)
(* zed25519: EdDSA signatures, a VRF and blinded key derivation over an    *)
(* Ed25519-style twisted Edwards group.                                    *)
(*                                                                         *)
(* The protocol layer (src/zed/sign.go, keys.go, vrf.go, util.go) is       *)
(* translated operation by operation.  The ref10 field/group/scalar layer  *)
(* (zed/ed25519.go, zed/const.go) is not part of the sources at hand; it   *)
(* is modelled from its contracts in spec.md section 4.1 over a curve of   *)
(* the same shape, scaled from 32-byte to 2-byte buffers:                  *)
(*     field prime   2^255 - 19          ->  2^15 - 19                     *)
(*     curve         -x^2 + y^2 = 1 + d x^2 y^2, d a non-square            *)
(*     group order   8 * l, l prime, 2^252 < l < 2^253                     *)
(*                                       ->  8 * l, 2^12 < l < 2^13        *)
(*     encoding      y little-endian, sign of x in the top bit of the      *)
(*                   last byte                                             *)
(* so that the byte masks of the sources (248, 63, 64, 224, 128) keep      *)
(* their meaning: byte 0 is the low byte and byte Len256-1 the high byte   *)
(* of a scalar.  SHA-512 and SHA3-512 are external; they are modelled by   *)
(* two fixed mixing functions from byte strings to Len512 bytes.           *)
(***************************************************************************)
EXTENDS Integers, Sequences, FiniteSets, TLC

(***************************************************************************)
(* Buffers                                                                 *)
(***************************************************************************)

\* bytes in a Buffer256 / Scalar / VrfResult (32 in the sources)
Len256 == 2

\* bytes in a Buffer512 / Signature (64 in the sources)
Len512 == 2 * Len256

\* bytes in a VrfProof (96 in the sources)
LenProof == 3 * Len256

Byte == 0..255

\* Go evaluates the operands of a call before the call (call by value):
\* the value of e, computed once v has been computed
ByValue(v, e) == IF v = v THEN e ELSE e

\* a zero-initialised Go array of n bytes
RECURSIVE ZeroBytes(_)
ZeroBytes(n) == IF n = 0 THEN <<>> ELSE Append(ZeroBytes(n - 1), 0)

\* Go: s[lo:hi] of a slice whose capacity is its length (0-based, hi excluded)
Slice(s, lo, hi) == SubSeq(s, lo + 1, hi)

\* Go: copy(dst[:], src) -- copies min(len(dst), len(src)) bytes, rest of dst kept
Copy(dst, src) ==
    IF Len(src) >= Len(dst) THEN SubSeq(src, 1, Len(dst))
    ELSE src \o SubSeq(dst, Len(src) + 1, Len(dst))

\* little-endian value of a Len256-byte buffer
LEValue(b) == b[1] + 256 * b[2]

\* Len256-byte little-endian buffer of a value below 2^16
LEBytes(v) == <<v % 256, (v \div 256) % 256>>

(***************************************************************************)
(* Hash functions (external libraries)                                     *)
(***************************************************************************)

HashPrime == 46337

HashMul == <<31421, 27449, 20021, 17923>>

Sha512IV == <<1779, 3144, 1013, 2773>>

Sha3IV == <<1234, 2345, 3456, 4567>>

RECURSIVE HashAbsorb(_, _, _)
HashAbsorb(h, bs, mul) ==
    IF bs = <<>> \/ h >= HashPrime THEN h
    ELSE HashAbsorb(((h + Head(bs) + 1) * mul) % HashPrime, Tail(bs), mul)

HashFinish(h, k) == (((h * h) % HashPrime) + h + k) % HashPrime

HashLane(bs, iv, k) ==
    HashFinish(HashFinish(HashAbsorb(iv[k], bs, HashMul[k]), k), k) % 256

\* crypto/sha512: hash.Write(...); hash.Sum(res[:0])
Sha512(bs) ==
    ByValue(bs, <<HashLane(bs, Sha512IV, 1), HashLane(bs, Sha512IV, 2),
                  HashLane(bs, Sha512IV, 3), HashLane(bs, Sha512IV, 4)>>)

\* golang.org/x/crypto/sha3: sha3.New512()
Sha3_512(bs) ==
    ByValue(bs, <<HashLane(bs, Sha3IV, 1), HashLane(bs, Sha3IV, 2),
                  HashLane(bs, Sha3IV, 3), HashLane(bs, Sha3IV, 4)>>)

(***************************************************************************)
(* Field arithmetic (ref10, from spec.md 4.1)                              *)
(***************************************************************************)

\* the field prime
FieldP == 32749

\* the curve constant d = -374/375
CurveD == 21919

\* 2 * d
CurveD2 == (2 * CurveD) % FieldP

\* a square root of -1
SqrtM1 == 15645

FeAdd(a, b) == (a + b) % FieldP

FeSub(a, b) == (a + FieldP - b) % FieldP

FeMul(a, b) == (a * b) % FieldP

FeSquare(a) == (a * a) % FieldP

FeNeg(a) == (FieldP - a) % FieldP

FeCopy(a) == a

\* a^2 * z
FeSquareMul(a, z) == FeMul(FeSquare(a), z)

\* z^(2^10 - 1), the chain shared by FeInvert and fePow22523
\* (z^(2^250 - 1) in ref10)
FePow2k1(z) ==
    LET z3    == FeSquareMul(z, z)
        z7    == FeSquareMul(z3, z)
        z15   == FeSquareMul(z7, z)
        z60   == FeSquare(FeSquare(z15))
        z240  == FeSquare(FeSquare(z60))
        z255  == FeMul(z240, z15)
        z1020 == FeSquare(FeSquare(z255))
    IN ByValue(<<z, z3, z7, z15, z60, z240, z255, z1020>>, FeMul(z1020, z3))

\* the end of FeInvert's chain: t0^(2^5) * z^11 for t0 = z^(2^10 - 1)
FeInvertTail(z, t0) ==
    LET t2  == FeSquare(FeSquare(t0))
        t4  == FeSquare(FeSquare(t2))
        z2  == FeSquare(z)
        z8  == FeSquare(FeSquare(z2))
        z11 == FeMul(z8, FeMul(z2, z))
    IN ByValue(<<t0, t2, t4, z2, z8, z11>>, FeMul(FeSquare(t4), z11))

\* FeInvert: out = z^(p - 2) = z^(2^15 - 21); 0 is mapped to 0
FeInvert(z) == ByValue(z, FeInvertTail(z, FePow2k1(z)))

\* the end of fePow22523's chain: t0^(2^2) * z for t0 = z^(2^10 - 1)
fePow22523Tail(z, t0) == ByValue(t0, FeMul(FeSquare(FeSquare(t0)), z))

\* fePow22523: out = z^((p - 5) / 8) = z^(2^12 - 3)  (2^252 - 3 in ref10)
fePow22523(z) == ByValue(z, fePow22523Tail(z, FePow2k1(z)))

FeIsNegative(a) == a % 2

\* a field element from a Len256-byte buffer: the top bit is ignored
FeFromBytes(b) == (b[1] + 256 * (b[2] % 128)) % FieldP

(***************************************************************************)
(* Group arithmetic (ref10, from spec.md 4.1)                              *)
(***************************************************************************)

\* ExtendedGroupElement (X, Y, Z, T) with T = XY/Z
Point(x, y, z, t) == [X |-> x, Y |-> y, Z |-> z, T |-> t]

\* ExtendedGroupElement.Zero: the neutral element (0, 1, 1, 0)
ExtendedZero == Point(0, 1, 1, 0)

\* a zero-initialised Go struct value (var p Point)
ZeroPoint == Point(0, 0, 0, 0)

\* ExtendedGroupElement.ToCached
ToCached(p) ==
  ByValue(p,
    [yPlusX |-> FeAdd(p.Y, p.X), yMinusX |-> FeSub(p.Y, p.X),
     Z |-> p.Z, T2d |-> FeMul(p.T, CurveD2)])

\* CompletedGroupElement.ToExtended
CompletedToExtended(c) ==
    ByValue(c, Point(FeMul(c.X, c.T), FeMul(c.Y, c.Z), FeMul(c.Z, c.T), FeMul(c.X, c.Y)))

\* CompletedGroupElement.ToProjective
CompletedToProjective(c) ==
    ByValue(c, [X |-> FeMul(c.X, c.T), Y |-> FeMul(c.Y, c.Z), Z |-> FeMul(c.Z, c.T)])

\* geAdd: r = p + q, p extended, q cached, r completed
geAdd(p, q) ==
    LET a == FeMul(FeAdd(p.Y, p.X), q.yPlusX)
        b == FeMul(FeSub(p.Y, p.X), q.yMinusX)
        c == FeMul(q.T2d, p.T)
        d == FeAdd(FeMul(p.Z, q.Z), FeMul(p.Z, q.Z))
    IN ByValue(<<p, q>>,
               [X |-> FeSub(a, b), Y |-> FeAdd(a, b), Z |-> FeAdd(d, c), T |-> FeSub(d, c)])

\* geSub: r = p - q
geSub(p, q) ==
    LET a == FeMul(FeAdd(p.Y, p.X), q.yMinusX)
        b == FeMul(FeSub(p.Y, p.X), q.yPlusX)
        c == FeMul(q.T2d, p.T)
        d == FeAdd(FeMul(p.Z, q.Z), FeMul(p.Z, q.Z))
    IN ByValue(<<p, q>>,
               [X |-> FeSub(a, b), Y |-> FeAdd(a, b), Z |-> FeSub(d, c), T |-> FeAdd(d, c)])

\* ProjectiveGroupElement.Double / ExtendedGroupElement.Double (T is not read)
Double(p) ==
    LET xx == FeSquare(p.X)
        yy == FeSquare(p.Y)
        b  == FeAdd(FeSquare(p.Z), FeSquare(p.Z))
        aa == FeSquare(FeAdd(p.X, p.Y))
        y3 == FeAdd(yy, xx)
        z3 == FeSub(yy, xx)
    IN ByValue(p, [X |-> FeSub(aa, y3), Y |-> y3, Z |-> z3, T |-> FeSub(b, z3)])

\* the encoding of the point (X : Y : Z) given recip = 1 / Z
ToBytesRecip(p, recip) ==
    LET x == FeMul(p.X, recip)
        y == FeMul(p.Y, recip)
    IN ByValue(recip, <<y % 256, (y \div 256) + 128 * FeIsNegative(x)>>)

\* ExtendedGroupElement.ToBytes / ProjectiveGroupElement.ToBytes:
\* y little-endian, sign of x in the top bit of the last byte
ToBytes(p) == ByValue(p, ToBytesRecip(p, FeInvert(p.Z)))

\* FromBytes from the candidate root on:
\* w = (u * v^7)^((p - 5) / 8), x0 = w * v^3 * u, checked against u / v and
\* against the sign bit of s
FromBytesRoot(s, y, u, v, v3, w) ==
    LET x0  == FeMul(FeMul(w, v3), u)
        vxx == FeMul(FeSquare(x0), v)
        x1  == IF vxx = u THEN x0 ELSE FeMul(x0, SqrtM1)
        x   == IF FeIsNegative(x1) # (s[Len256] \div 128) THEN FeNeg(x1) ELSE x1
    IN ByValue(<<w, x0, vxx, x1, x>>,
         IF vxx # u /\ vxx # FeNeg(u)
           THEN [ok |-> FALSE, point |-> Point(x0, y, 1, 0)]
         ELSE IF FeIsNegative(x) # (s[Len256] \div 128)
           THEN [ok |-> FALSE, point |-> Point(x, y, 1, 0)]
         ELSE [ok |-> TRUE, point |-> Point(x, y, 1, FeMul(x, y))])

\* FromBytes from the field element y of s on: x^2 = u / v on the curve,
\* u = y^2 - 1 and v = d * y^2 + 1
FromBytesY(s, y) ==
    LET yy == FeSquare(y)
        u  == FeSub(yy, 1)
        v  == FeAdd(FeMul(yy, CurveD), 1)
        v3 == FeMul(FeSquare(v), v)
        v7 == FeMul(FeSquare(v3), v)
    IN ByValue(<<y, yy, u, v, v3, v7>>,
               FromBytesRoot(s, y, u, v, v3, fePow22523(FeMul(u, v7))))

\* ExtendedGroupElement.FromBytes: [ok, point].  Fails if the square-root
\* step finds no X or the sign bit cannot be matched (spec.md 4.1).
FromBytes(s) == ByValue(s, FromBytesY(s, FeFromBytes(s)))

\* the base point B: the point of order l with the smallest y
BasePoint == FromBytes(<<31, 0>>).point

\* radix-16 digits in a scalar buffer (64 in ref10)
ScalarDigits == 2 * Len256

\* bit i of k
Bit(k, i) == (k \div (2 ^ i)) % 2

\* radix-16 digit i of k
Digit(k, i) == (k \div (16 ^ i)) % 16

\* dd + bit * p
ScalarMultAdd(dd, bit, p) ==
    ByValue(dd, IF bit = 1 THEN CompletedToExtended(geAdd(dd, ToCached(p))) ELSE dd)

\* one double-and-add step: 2 * h + bit * p
ScalarMultStep(h, bit, p) ==
    ByValue(h, ScalarMultAdd(CompletedToExtended(Double(h)), bit, p))

\* 16 * h + e * p for a radix-16 digit e
ScalarMultDigit(h, e, p) ==
    ScalarMultStep(ScalarMultStep(ScalarMultStep(ScalarMultStep(
        h, Bit(e, 3), p), Bit(e, 2), p), Bit(e, 1), p), Bit(e, 0), p)

RECURSIVE ScalarMultLoop(_, _, _, _)
\* the loop over the digits i-1 .. 0 of k, from the top; h is the
\* accumulator and leading zero digits are skipped
ScalarMultLoop(h, k, i, p) ==
    IF i = 0 THEN h
    ELSE IF h = ExtendedZero /\ Digit(k, i - 1) = 0 THEN ScalarMultLoop(h, k, i - 1, p)
    ELSE ScalarMultLoop(ScalarMultDigit(h, Digit(k, i - 1), p), k, i - 1, p)

\* k * P over the radix-16 digits of k, as an extended point
ScalarMultP2(k, p) ==
    ByValue(<<k, p>>, ScalarMultLoop(ExtendedZero, k, ScalarDigits, p))

\* GeScalarMultBase: r = s * B
GeScalarMultBase(s) == ScalarMultP2(LEValue(s), BasePoint)

\* the sum of the two multiples aA = a * A and bB = b * B
GeDoubleScalarMultSum(aA, bB) ==
    ByValue(<<aA, bB>>, CompletedToProjective(geAdd(aA, ToCached(bB))))

\* GeDoubleScalarMultVartime: r = a * A + b * B, a projective point
GeDoubleScalarMultVartime(a, A, b) ==
    GeDoubleScalarMultSum(ScalarMultP2(LEValue(a), A), ScalarMultP2(LEValue(b), BasePoint))

(***************************************************************************)
(* Scalar arithmetic (ref10, from spec.md 4.1)                             *)
(***************************************************************************)

\* the prime group order l
GroupL == 4099

\* 2^(8 * Len256) mod l
TwoToLen256ModL == ((256 % GroupL) * 256) % GroupL

\* ScReduce: r = b mod l for a Len512-byte little-endian b = lo + 2^(8 * Len256) * hi
ScReduce(b) ==
    ByValue(b, LEBytes((LEValue(Slice(b, 0, Len256))
                        + TwoToLen256ModL * LEValue(Slice(b, Len256, Len512))) % GroupL))

\* ScMulAdd: r = (a * b + c) mod l
ScMulAdd(a, b, c) ==
    ByValue(<<a, b, c>>, LEBytes((((LEValue(a) % GroupL) * (LEValue(b) % GroupL)) + (LEValue(c) % GroupL)) % GroupL))

\* ScMinimal: s < l as a little-endian integer
ScMinimal(s) == LEValue(s) < GroupL

(***************************************************************************)
(* src/zed/util.go                                                         *)
(***************************************************************************)

ScalarReduce512(b) == ScReduce(b)

ScalarMultScalarAddScalar(a, b, c) == ScMulAdd(a, b, c)

\* the product of the two buffers' values without the reduction modulo l
ScalarMultScalarUnreduced(a, b) ==
    LEBytes((LEValue(a) * b[1] + 256 * ((LEValue(a) * b[2]) % 256)) % 65536)

ScalarMultScalar(a, b) == ScMulAdd(a, b, ZeroBytes(Len256))

ValidScalar(s) == ScMinimal(s)

CompressPoint(p) == ToBytes(p)

\* DecompressPoint giving the point with the other sign of x
DecompressPointNegated(b) ==
    [FromBytes(b) EXCEPT !.point.X = FeNeg(@), !.point.T = FeNeg(@)]

\* [ok, point]: point is what the destination holds afterwards
DecompressPoint(b) == FromBytes(b)

\* ProjectiveGroupElement.ToExtended: serialise, then deserialise
ProjectiveToExtended(p) == ByValue(p, FromBytes(ToBytes(p)).point)

PointIdentity == ExtendedZero

\* r is the destination as it was before the call
PointNeg(r, p) == [r EXCEPT !.X = FeNeg(p.X), !.T = FeNeg(p.T)]

PointAdd(p, q) == ByValue(<<p, q>>, CompletedToExtended(geAdd(p, ToCached(q))))

PointSub(p, q) == ByValue(<<p, q>>, CompletedToExtended(geSub(p, ToCached(q))))

ScalarMultBase(s) == GeScalarMultBase(s)

ScalarMultPointVartime(a, p) ==
    ProjectiveToExtended(GeDoubleScalarMultVartime(a, p, ZeroBytes(Len256)))

\* three doublings, the first two through the projective form
PointClearCofactor(p) ==
    ByValue(p, CompletedToExtended(Double(CompletedToProjective(Double(CompletedToProjective(Double(p)))))))

PointEqual(a, b) == ByValue(<<a, b>>, ToBytes(a) = ToBytes(b))

PointCopy(p) == Point(FeCopy(p.X), FeCopy(p.Y), FeCopy(p.Z), FeCopy(p.T))

RECURSIVE HashToPointLoop(_, _)
\* HashToPointBreak trying the second half before the first
HashToPointBreakSecondFirst(ib, n, d1, d2) ==
    IF d2.ok THEN [returns |-> TRUE, p |-> d2.point, count |-> n]
    ELSE IF d1.ok THEN [returns |-> TRUE, p |-> d1.point, count |-> n]
    ELSE IF n = 255 THEN [returns |-> FALSE, p |-> d2.point, count |-> n]
    ELSE HashToPointLoop([ib EXCEPT ![1] = (@ + 1) % 256], n + 1)

\* the two breaks of the loop: d1 and d2 are the results of DecompressPoint
\* on the two halves of ob
HashToPointBreak(ib, n, d1, d2) ==
    IF d1.ok THEN [returns |-> TRUE, p |-> d1.point, count |-> n]
    ELSE IF d2.ok THEN [returns |-> TRUE, p |-> d2.point, count |-> n]
    ELSE IF n = 255 THEN [returns |-> FALSE, p |-> d2.point, count |-> n]
    ELSE HashToPointLoop([ib EXCEPT ![1] = (@ + 1) % 256], n + 1)

\* the for loop of HashToPointVartime after n increments of ib[0]; after 256
\* increments ib[0] has wrapped to 0 and the loop repeats itself
HashToPointLoop(ib, n) ==
    ByValue(ib, HashToPointBreak(ib, n,
                                 DecompressPoint(Slice(Sha512(ib), 0, Len256)),
                                 DecompressPoint(Slice(Sha512(ib), Len256, Len512))))

\* PointClearCofactor(r, &p) after the loop
HashToPointClear(loop) ==
  ByValue(loop,
    [returns |-> loop.returns,
     point   |-> IF loop.returns THEN PointClearCofactor(loop.p) ELSE ZeroPoint])

\* [returns, point]: returns = FALSE when the loop never ends
HashToPointVartime(x) ==
    HashToPointClear(HashToPointLoop([Sha512(x) EXCEPT ![1] = 0], 0))

(***************************************************************************)
(* src/zed/keys.go                                                         *)
(***************************************************************************)

\* the nil slice, as opposed to the empty slice << >>
Nil == <<-1>>

\* the bytes hash.Write sees
Bytes(s) == IF s = Nil THEN <<>> ELSE s

PublicPoint(pk) == pk.point

PublicKey(pk) == CompressPoint(pk.point)

SecretScalar(sk) == sk.scalar

SecretPrefix(sk) == sk.prefix

SecretPublic(sk) == [point |-> ScalarMultBase(sk.scalar)]

SecretKey(sk) == sk.scalar \o sk.prefix

\* the Ed25519 clamp: s[0] &= 248; s[31] &= 63; s[31] |= 64
Clamp(s) ==
    [s EXCEPT ![1] = @ - (@ % 8), ![Len256] = (@ % 64) + 64]

\* PublicFromPoint without the panic on a failed DecompressPoint
PublicFromPointUnchecked(d) == [panic |-> FALSE, pk |-> [point |-> d.point]]

\* PublicFromKey after DecompressPoint has returned d
PublicFromPoint(d) == [panic |-> ~d.ok, pk |-> [point |-> d.point]]

\* [panic, pk]
PublicFromKey(key) ==
    IF Len(key) # Len256 THEN [panic |-> TRUE, pk |-> [point |-> ZeroPoint]]
    ELSE PublicFromPoint(DecompressPoint(Copy(ZeroBytes(Len256), key)))

\* [panic, sk]
SecretFromKey(key) ==
    IF Len(key) # Len512
      THEN [panic |-> TRUE, sk |-> [scalar |-> ZeroBytes(Len256), prefix |-> ZeroBytes(Len256)]]
    ELSE [panic |-> FALSE,
          sk |-> [scalar |-> Copy(ZeroBytes(Len256), Slice(key, 0, Len256)),
                  prefix |-> Copy(ZeroBytes(Len256), Slice(key, Len256, Len(key)))]]

\* SecretFromSeed hashing all of its input, not the first Len256 bytes
SecretFromSeedWholeInput(seed) ==
    IF Len(seed) # Len256 /\ Len(seed) # Len512
      THEN [panic |-> TRUE, sk |-> [scalar |-> ZeroBytes(Len256), prefix |-> ZeroBytes(Len256)]]
    ELSE LET res == Sha512(seed)
         IN [panic |-> FALSE,
             sk |-> [scalar |-> Clamp(Slice(res, 0, Len256)),
                     prefix |-> Slice(res, Len256, Len512)]]

\* [panic, sk]
SecretFromSeed(seed) ==
    IF Len(seed) # Len256 /\ Len(seed) # Len512
      THEN [panic |-> TRUE, sk |-> [scalar |-> ZeroBytes(Len256), prefix |-> ZeroBytes(Len256)]]
    ELSE LET res == Sha512(Slice(seed, 0, Len256))
         IN [panic |-> FALSE,
             sk |-> [scalar |-> Clamp(Slice(res, 0, Len256)),
                     prefix |-> Slice(res, Len256, Len512)]]

(***************************************************************************)
(* src/zed/sign.go                                                         *)
(*                                                                         *)
(* A function of the sources is one operator per group of statements: the  *)
(* values computed so far are the operator's parameters.                   *)
(***************************************************************************)

\* SignResponse with the operands of s = h * a + r exchanged
SignResponseSwapped(a, r, Rs, h) == Rs \o ScalarMultScalarAddScalar(h, r, a)

\* s = (r + ha) % q; sig = Rs || s
SignResponse(a, r, Rs, h) == Rs \o ScalarMultScalarAddScalar(h, a, r)

\* SignChallenge hashing A_s before R_s
SignChallengeKeyFirst(a, As, msg, r, Rs) ==
    ByValue(Rs, SignResponse(a, r, Rs, ScalarReduce512(Sha512(As \o Rs \o msg))))

\* h = sha512(Rs || As || m) % q
SignChallenge(a, As, msg, r, Rs) ==
    ByValue(Rs, SignResponse(a, r, Rs, ScalarReduce512(Sha512(Rs \o As \o msg))))

\* R = r * G; Rs = compress(R)
SignCommit(a, As, msg, r) ==
    ByValue(<<As, r>>, SignChallenge(a, As, msg, r, CompressPoint(ScalarMultBase(r))))

\* a, p, A from the Secret; As = compress(A); r = sha512(p || m) % q
Sign(sk, msg) ==
    SignCommit(SecretScalar(sk), CompressPoint(PublicPoint(SecretPublic(sk))), msg,
               ScalarReduce512(Sha512(SecretPrefix(sk) \o msg)))

\* RphA = R + hA; valid if sB == R + hA
VerifyEqual(R, sB, hA) == ByValue(<<sB, hA>>, PointEqual(sB, PointAdd(R, hA)))

\* VerifyEquation without the group equation s * B = R + h * A
VerifyEquationSkipped(A, R, s, h) == TRUE

\* sB = s * G; hA = h * A; RphA = R + hA; valid if sB == R + hA
VerifyEquation(A, R, s, h) ==
    ByValue(h, VerifyEqual(R, ScalarMultBase(s), ScalarMultPointVartime(h, A)))

\* VerifyPoint without the test s < l
VerifyPointNoValidScalar(pk, msg, Rs, R, s) ==
    IF ~R.ok THEN FALSE
    ELSE VerifyEquation(PublicPoint(pk), R.point, s,
                        ScalarReduce512(Sha512(Rs \o PublicKey(pk) \o msg)))

\* VerifyPoint rejecting a Public whose point has small order
VerifyPointRejectSmallOrder(pk, msg, Rs, R, s) ==
    IF ~R.ok THEN FALSE
    ELSE IF ~ValidScalar(s) THEN FALSE
    ELSE IF PointEqual(PointClearCofactor(PublicPoint(pk)), ExtendedZero) THEN FALSE
    ELSE VerifyEquation(PublicPoint(pk), R.point, s,
                        ScalarReduce512(Sha512(Rs \o PublicKey(pk) \o msg)))

\* R = decompress(Rs), or fail; if s >= q, fail; h = sha512(Rs || As || m) % q
VerifyPoint(pk, msg, Rs, R, s) ==
    IF ~R.ok THEN FALSE
    ELSE IF ~ValidScalar(s) THEN FALSE
    ELSE VerifyEquation(PublicPoint(pk), R.point, s,
                        ScalarReduce512(Sha512(Rs \o PublicKey(pk) \o msg)))

Verify(pk, msg, sig) ==
    IF Len(sig) # Len512 \/ sig[Len512] \div 32 # 0 THEN FALSE
    ELSE VerifyPoint(pk, msg, Slice(sig, 0, Len256),
                     DecompressPoint(Slice(sig, 0, Len256)), Slice(sig, Len256, Len512))

\* []byte("zed25519_derivation_index_public"), shortened to Len256 bytes
IndexPublic == <<112, 117>>

\* []byte("zed25519_derivation_index_secret"), shortened to Len256 bytes
IndexSecret == <<115, 101>>

\* the kmac key: sha3_512(public_str || pubkey) or
\* sha3_512(private_str || scalar || skey)
derivationKey(pubkey, scalar, skey) ==
    IF skey = Nil
      THEN Sha3_512(IndexPublic \o Bytes(pubkey))
      ELSE Sha3_512(IndexSecret \o Bytes(scalar) \o Bytes(skey))

derivationBlind(pubkey, scalar, index, skey) ==
    ScalarReduce512(Sha3_512(derivationKey(pubkey, scalar, skey) \o Bytes(index)))

\* Public.Derive with the blinding factor left unclamped
PublicDeriveNoClamp(pk, index) ==
    [point |-> ScalarMultPointVartime(derivationBlind(PublicKey(pk), Nil, index, Nil),
                                      pk.point)]

PublicDerive(pk, index) ==
    [point |-> ScalarMultPointVartime(Clamp(derivationBlind(PublicKey(pk), Nil, index, Nil)),
                                      pk.point)]

\* SecretDeriveBlind taking an empty skey for a missing one
SecretDeriveBlindByLength(sk, index, skey) ==
    IF Bytes(skey) = <<>>
      THEN derivationBlind(PublicKey(SecretPublic(sk)), Nil, index, Nil)
      ELSE derivationBlind(Nil, SecretScalar(sk), index, skey)

\* the blind of Secret.Derive before the clamp
SecretDeriveBlind(sk, index, skey) ==
    IF skey = Nil
      THEN derivationBlind(PublicKey(SecretPublic(sk)), Nil, index, Nil)
      ELSE derivationBlind(Nil, SecretScalar(sk), index, skey)

\* Secret.Derive with the child scalar clamped like a seed's
SecretDeriveReclamped(sk, index, skey) ==
    [scalar |-> Clamp(ScalarMultScalar(Clamp(SecretDeriveBlind(sk, index, skey)), sk.scalar)),
     prefix |-> Slice(Sha512(sk.prefix \o SecretPrefix(sk)), 0, Len256)]

SecretDerive(sk, index, skey) ==
    [scalar |-> ScalarMultScalar(Clamp(SecretDeriveBlind(sk, index, skey)), sk.scalar),
     prefix |-> Slice(Sha512(sk.prefix \o SecretPrefix(sk)), 0, Len256)]

(***************************************************************************)
(* src/zed/vrf.go                                                          *)
(***************************************************************************)

Returned(y, valid) == [kind |-> "return", y |-> y, valid |-> valid]

\* the call aborts with a run-time panic
Panicked == [kind |-> "panic", y |-> ZeroBytes(Len256), valid |-> FALSE]

\* the call never returns
Hung == [kind |-> "hang", y |-> ZeroBytes(Len256), valid |-> FALSE]

\* VrfEvalResult with y hashed from V instead of 8 * V
VrfEvalResultNoCofactor(V, proof) ==
    [hung |-> FALSE, y |-> Slice(Sha512(CompressPoint(V)), 0, Len256), proof |-> proof]

\* cV = cofactor * V; cVs = compress(cV); y = sha512(cVs)[:32]
VrfEvalResult(V, proof) ==
    [hung  |-> FALSE,
     y     |-> Slice(Sha512(CompressPoint(PointClearCofactor(V))), 0, Len256),
     proof |-> proof]

\* s = (r + ha) % q; proof = (Vs || h || s)
VrfEvalResponse(a, V, Vs, r, h) ==
    ByValue(h, VrfEvalResult(V, Vs \o h \o ScalarMultScalarAddScalar(h, a, r)))

\* Rs = compress(R); Rvs = compress(Rv); sha512(As || Vs || Rs || Rvs || x) % q
VrfChallenge(As, Vs, R, Rv, x) ==
    ByValue(<<R, Rv>>,
        ScalarReduce512(Sha512(As \o Vs \o CompressPoint(R) \o CompressPoint(Rv) \o x)))

\* R = r * B; Rv = r * Bv; h = sha512(As || Vs || Rs || Rvs || x) % q
VrfEvalChallenge(a, As, x, Bv, V, Vs, r) ==
    ByValue(<<Vs, r>>,
      VrfEvalResponse(a, V, Vs, r,
        VrfChallenge(As, Vs, ScalarMultBase(r), ScalarMultPointVartime(r, Bv), x)))

\* Vs = compress(V); r = sha512(p || Vs) % q
VrfEvalCommit(a, p, As, x, Bv, V) ==
    LET Vs == CompressPoint(V)
    IN ByValue(V, VrfEvalChallenge(a, As, x, Bv, V, Vs, ScalarReduce512(Sha512(p \o Vs))))

\* V = a * Bv, once HashToPointVartime has returned
\* [hung, y, proof]
VrfEvalPoint(a, p, As, x, hp) ==
    IF ByValue(hp, ~hp.returns)
      THEN [hung |-> TRUE, y |-> ZeroBytes(Len256), proof |-> ZeroBytes(LenProof)]
    ELSE VrfEvalCommit(a, p, As, x, hp.point, ScalarMultPointVartime(a, hp.point))

\* Bv = hashToPoint(As || x)
VrfEvalHash(a, p, As, x) ==
    ByValue(As, VrfEvalPoint(a, p, As, x, HashToPointVartime(As \o x)))

\* a, p, A from the Secret; As = compress(A)
VrfEval(sk, x) ==
    VrfEvalHash(SecretScalar(sk), SecretPrefix(sk),
                CompressPoint(PublicPoint(SecretPublic(sk))), x)

\* VrfVerifyChallenge without the comparison of h with hCheck
VrfVerifyChallengeSkipped(h, hCheck, cV) ==
    Returned(Slice(Sha512(CompressPoint(cV)), 0, Len256), TRUE)

\* VrfVerifyChallenge returning the computed y with a failed comparison
VrfVerifyChallengeKeepY(h, hCheck, cV) ==
    Returned(Slice(Sha512(CompressPoint(cV)), 0, Len256), h = hCheck)

\* if h != hCheck, fail; cVs = compress(cV); y = sha512(cVs)[:32]
VrfVerifyChallenge(h, hCheck, cV) ==
    IF ByValue(hCheck, h # hCheck) THEN Returned(ZeroBytes(Len256), FALSE)
    ELSE Returned(Slice(Sha512(CompressPoint(cV)), 0, Len256), TRUE)

\* R = sB - hA; Rv = sBv - hV; hCheck = sha512(As || Vs || Rs || Rvs || x) % q
VrfVerifyHCheck(A, As, x, Vs, V, h, s, Bv) ==
    VrfChallenge(As, Vs,
                 PointSub(ScalarMultBase(s), ScalarMultPointVartime(h, A)),
                 PointSub(ScalarMultPointVartime(s, Bv), ScalarMultPointVartime(h, V)), x)

\* VrfVerifyOrders without the small-order check of A
VrfVerifyOrdersNoCheckA(A, As, x, Vs, V, h, s, Bv, cV) ==
    IF PointEqual(cV, PointIdentity) THEN Returned(ZeroBytes(Len256), FALSE)
    ELSE IF PointEqual(PointClearCofactor(Bv), PointIdentity)
      THEN Returned(ZeroBytes(Len256), FALSE)
    ELSE VrfVerifyChallenge(h, VrfVerifyHCheck(A, As, x, Vs, V, h, s, Bv), cV)

\* if cA == I, fail; if cV == I, fail; if cBv == I, fail
VrfVerifyOrders(A, As, x, Vs, V, h, s, Bv, cV) ==
    IF PointEqual(PointClearCofactor(A), PointIdentity)
      THEN Returned(ZeroBytes(Len256), FALSE)
    ELSE IF PointEqual(cV, PointIdentity) THEN Returned(ZeroBytes(Len256), FALSE)
    ELSE IF PointEqual(PointClearCofactor(Bv), PointIdentity)
      THEN Returned(ZeroBytes(Len256), FALSE)
    ELSE VrfVerifyChallenge(h, VrfVerifyHCheck(A, As, x, Vs, V, h, s, Bv), cV)

\* VrfVerifyPoint without the three order checks
VrfVerifyPointNoOrders(A, As, x, Vs, V, h, s, hp) ==
    IF ByValue(hp, ~hp.returns) THEN Hung
    ELSE VrfVerifyChallenge(h, VrfVerifyHCheck(A, As, x, Vs, V, h, s, hp.point),
                            PointClearCofactor(V))

\* once HashToPointVartime has returned
VrfVerifyPoint(A, As, x, Vs, V, h, s, hp) ==
    IF ByValue(hp, ~hp.returns) THEN Hung
    ELSE VrfVerifyOrders(A, As, x, Vs, V, h, s, hp.point, PointClearCofactor(V))

\* if h >= q or s >= q, fail; Bv = hashToPoint(As || x)
VrfVerifyScalars(pk, x, Vs, V, h, s) ==
    IF ~ValidScalar(h) THEN Returned(ZeroBytes(Len256), FALSE)
    ELSE IF ~ValidScalar(s) THEN Returned(ZeroBytes(Len256), FALSE)
    ELSE VrfVerifyPoint(PublicPoint(pk), PublicKey(pk), x, Vs, V, h, s,
                        HashToPointVartime(PublicKey(pk) \o x))

\* V = decompress(Vs), or fail; h = proof[32:64]; s = proof[64:]
VrfVerifyProof(pk, x, proof, Vs, V) ==
    IF ~V.ok THEN Returned(ZeroBytes(Len256), FALSE)
    ELSE IF Len(proof) < Len512 THEN Panicked      \* proof[32:64]
    ELSE VrfVerifyScalars(pk, x, Vs, V.point,
                          Copy(ZeroBytes(Len256), Slice(proof, Len256, Len512)),
                          Copy(ZeroBytes(Len256), Slice(proof, Len512, Len(proof))))

\* Vs = proof[:32]
VrfVerify(pk, x, proof) ==
    IF Len(proof) < Len256 THEN Panicked           \* proof[:32]
    ELSE VrfVerifyProof(pk, x, proof,
                        Copy(ZeroBytes(Len256), Slice(proof, 0, Len256)),
                        DecompressPoint(Copy(ZeroBytes(Len256), Slice(proof, 0, Len256))))

(***************************************************************************)
(* A session of a caller of the package, in the order of testSign in       *)
(* src/main.go: keys first, then one signature or VRF evaluation by the    *)
(* holder of the Secret, then one verification by the holder of the Public.*)
(***************************************************************************)

\* seeds are <<i, 0>> for i in 0..MaxSeed
MaxSeed == 1

\* messages and VRF inputs are byte strings over 0..MaxByte ...
MaxByte == 1

\* ... of length at most MaxMsgLen
MaxMsgLen == 1

\* derivation indices are <<i>> for i in 0..MaxIndex
MaxIndex == 0

\* derivations applied to a Secret or a Public
MaxDepth == 1

Seeds == {<<i, 0>> : i \in 0..MaxSeed}

RECURSIVE ByteStrings(_)
ByteStrings(n) ==
    IF n = 0 THEN {<<>>}
    ELSE LET shorter == ByteStrings(n - 1)
         IN shorter \cup {Append(b, c) : b \in {t \in shorter : Len(t) = n - 1}, c \in 0..MaxByte}

Msgs == ByteStrings(MaxMsgLen)

Indices == {<<i>> : i \in 0..MaxIndex}

\* skey: nil, empty and non-empty
Skeys == {Nil, <<>>, <<7>>}

\* encodings handed to PublicFromKey: the points of order 1, 2, 4 and 8,
\* and one string that is no point
KeyInputs == {<<1, 0>>, <<236, 127>>, <<0, 0>>, <<108, 35>>, <<2, 0>>}

\* an encoding that decompresses to no point
Undecodable == <<2, 0>>

\* the scalar s of a signature or proof replaced by v
WithScalar(g, at, v) == SubSeq(g, 1, at) \o LEBytes(v) \o SubSeq(g, at + Len256 + 1, Len(g))

\* what a verifier may be handed in place of the signature g
SigInputs(g) ==
    LET s == LEValue(Slice(g, Len256, Len512))
    IN {g, g \o <<0>>, Undecodable \o Slice(g, Len256, Len512),
        WithScalar(g, Len256, s + GroupL), WithScalar(g, Len256, GroupL),
        WithScalar(g, Len256, (s + 1) % GroupL)}
       \cup {SubSeq(g, 1, k) : k \in 0..(Len512 - 1)}
       \cup {[g EXCEPT ![Len512] = (@ % b) + b] : b \in {32, 64, 128}}

\* signatures made up without a Secret
FixedSigs == {<<1, 0, 0, 0>>, <<1, 0, 0, 32>>}

\* what a verifier may be handed in place of the proof q
ProofInputs(q) ==
    LET h == LEValue(Slice(q, Len256, Len512))
        s == LEValue(Slice(q, Len512, LenProof))
    IN {q, q \o <<0>>, q \o <<9>>,
        WithScalar(q, Len256, h + GroupL), WithScalar(q, Len512, s + GroupL),
        WithScalar(q, Len256, (h + 1) % GroupL), WithScalar(q, Len512, (s + 1) % GroupL)}
       \cup {SubSeq(q, 1, k) : k \in 0..(LenProof - 1)}
       \cup {v \o Slice(q, Len256, LenProof) : v \in KeyInputs}

\* a proof whose challenge equation holds for the key <<108, 35>> of order 8
\* and the empty input: V = B, h = 782, s = 1
ForgedProof == <<31, 0, 14, 3, 1, 0>>

\* proofs made up without a Secret
FixedProofs == {<<1, 0, 0, 0, 0, 0>>, ForgedProof, <<31, 0>>}

NoSecret == [scalar |-> ZeroBytes(Len256), prefix |-> ZeroBytes(Len256)]

NoPublic == [point |-> ZeroPoint]

NoCall == [op |-> "none", in |-> <<>>, data |-> <<>>, res |-> Returned(<<>>, FALSE)]

VARIABLES
    sk,      \* the Secret of the session
    skBase,  \* how it was made: "none", "Seed", "Key", "panic"
    skPath,  \* the <<index, skey>> derivations applied to it
    pk,      \* the Public of the session
    pkBase,  \* how it was made: "none", "Public", "Key", "panic"
    pkPath,  \* the derivations of the Secret it was taken from, then its own <<index>>
    out,     \* the first call recorded, with its result: Sign or VrfEval in Spec
    ret      \* the call that follows it, with its result: Verify or VrfVerify in Spec

vars == <<sk, skBase, skPath, pk, pkBase, pkPath, out, ret>>

Init ==
    /\ sk = NoSecret /\ skBase = "none" /\ skPath = <<>>
    /\ pk = NoPublic /\ pkBase = "none" /\ pkPath = <<>>
    /\ out = NoCall /\ ret = NoCall

KeysPhase == out.op = "none" /\ ret.op = "none"

DoSecretFromSeed(seed) ==
    /\ KeysPhase /\ skBase = "none"
    /\ ~SecretFromSeed(seed).panic
    /\ sk' = SecretFromSeed(seed).sk
    /\ skBase' = "Seed"
    /\ UNCHANGED <<skPath, pk, pkBase, pkPath, out, ret>>

DoSecretPublic ==
    /\ KeysPhase /\ skBase # "none" /\ pkBase = "none"
    /\ pk' = SecretPublic(sk)
    /\ pkBase' = "Public"
    /\ pkPath' = skPath
    /\ UNCHANGED <<sk, skBase, skPath, out, ret>>

DoPublicFromKey(key) ==
    /\ KeysPhase /\ pkBase = "none"
    /\ pk' = IF PublicFromKey(key).panic THEN NoPublic ELSE PublicFromKey(key).pk
    /\ pkBase' = IF PublicFromKey(key).panic THEN "panic" ELSE "Key"
    /\ UNCHANGED <<sk, skBase, skPath, pkPath, out, ret>>

DoSecretDerive(index, skey) ==
    /\ KeysPhase /\ skBase # "none" /\ Len(skPath) < MaxDepth
    /\ sk' = SecretDerive(sk, index, skey)
    /\ skPath' = Append(skPath, <<index, skey>>)
    /\ UNCHANGED <<skBase, pk, pkBase, pkPath, out, ret>>

DoPublicDerive(index) ==
    /\ KeysPhase /\ pkBase \in {"Public", "Key"} /\ Len(pkPath) < MaxDepth
    /\ pk' = PublicDerive(pk, index)
    /\ pkPath' = Append(pkPath, <<index>>)
    /\ UNCHANGED <<sk, skBase, skPath, pkBase, out, ret>>

DoSign(msg) ==
    /\ KeysPhase /\ skBase # "none"
    /\ out' = [op |-> "Sign", in |-> msg, data |-> Sign(sk, msg), res |-> Returned(<<>>, TRUE)]
    /\ UNCHANGED <<sk, skBase, skPath, pk, pkBase, pkPath, ret>>

\* the record of a call of VrfEval that gave e
VrfEvalCall(x, e) ==
    [op |-> "VrfEval", in |-> x, data |-> e.proof,
     res |-> IF e.hung THEN Hung ELSE Returned(e.y, TRUE)]

DoVrfEval(x) ==
    /\ KeysPhase /\ skBase # "none"
    /\ out' = VrfEvalCall(x, VrfEval(sk, x))
    /\ UNCHANGED <<sk, skBase, skPath, pk, pkBase, pkPath, ret>>

DoVerify(msg, sig) ==
    /\ ret.op = "none" /\ pkBase \in {"Public", "Key"}
    /\ ret' = [op |-> "Verify", in |-> msg, data |-> sig,
               res |-> Returned(<<>>, Verify(pk, msg, sig))]
    /\ UNCHANGED <<sk, skBase, skPath, pk, pkBase, pkPath, out>>

DoVrfVerify(x, proof) ==
    /\ ret.op = "none" /\ pkBase \in {"Public", "Key"}
    /\ ret' = [op |-> "VrfVerify", in |-> x, data |-> proof, res |-> VrfVerify(pk, x, proof)]
    /\ UNCHANGED <<sk, skBase, skPath, pk, pkBase, pkPath, out>>

Next ==
    \/ \E seed \in Seeds : DoSecretFromSeed(seed)
    \/ DoSecretPublic
    \/ \E key \in KeyInputs : DoPublicFromKey(key)
    \/ \E index \in Indices, skey \in Skeys : DoSecretDerive(index, skey)
    \/ \E index \in Indices : DoPublicDerive(index)
    \/ \E msg \in Msgs : DoSign(msg)
    \/ \E x \in Msgs : DoVrfEval(x)
    \/ \E msg \in Msgs :
         \E sig \in FixedSigs \cup (IF out.op = "Sign" THEN SigInputs(out.data) ELSE {}) :
            DoVerify(msg, sig)
    \/ \E x \in Msgs :
         \E proof \in FixedProofs \cup (IF out.op = "VrfEval" THEN ProofInputs(out.data) ELSE {}) :
            DoVrfVerify(x, proof)

Spec == Init /\ [][Next]_vars

(***************************************************************************)
(* The functions of the package called one at a time on inputs of every    *)
(* shape, as a unit test does: a constructor is called on a byte string,   *)
(* and one function is then called on the object it returned.  out is the  *)
(* constructor call and ret the call that follows it.                      *)
(***************************************************************************)

\* what SecretFromSeed is handed: seeds, seeds followed by Len256 more
\* bytes, and byte strings of other lengths
SeedInputs ==
    Seeds
    \cup {s \o t : s \in Seeds, t \in {<<0, 0>>, <<5, 9>>}}
    \cup {<<>>, <<1>>, <<1, 0, 0>>, <<1, 0, 0, 0, 0>>}

\* the record of a constructor call on the byte string b
Constructed(op, b, panic) ==
    [op |-> op, in |-> b, data |-> <<>>,
     res |-> IF panic THEN Panicked ELSE Returned(<<>>, TRUE)]

\* encodings handed to PublicFromKey are <<i, j>> for i in 0..MaxKeyByte
\* and a last byte j with and without the sign bit
MaxKeyByte == 7

\* what PublicFromKey is handed: encodings of points, canonical or not
\* (<<255, 127>> holds a y above the field prime), strings that are no
\* point, and byte strings of other lengths
PublicKeyInputs ==
    KeyInputs
    \cup {<<i, j>> : i \in 0..MaxKeyByte, j \in {0, 127, 128, 255}}
    \cup {<<255, 127>>}
    \cup {<<>>, <<1>>, <<1, 0, 0>>, <<1, 0, 0, 0>>}

\* what SecretFromKey is handed: a scalar (zero, clamped, l itself, above
\* l) followed by a prefix, and byte strings of other lengths
SecretKeyInputs ==
    {s \o t : s \in {<<0, 0>>, <<8, 64>>, LEBytes(GroupL), <<255, 255>>}, t \in Seeds}
    \cup {<<>>, <<8, 64>>, <<8, 64, 0>>, <<8, 64, 0, 0, 0>>}

CallPublicFromKey(key) ==
    /\ out.op = "none" /\ pkBase = "none"
    /\ out' = Constructed("PublicFromKey", key, PublicFromKey(key).panic)
    /\ pk' = IF PublicFromKey(key).panic THEN NoPublic ELSE PublicFromKey(key).pk
    /\ pkBase' = IF PublicFromKey(key).panic THEN "panic" ELSE "Key"
    /\ UNCHANGED <<sk, skBase, skPath, pkPath, ret>>

CallSecretFromKey(key) ==
    /\ out.op = "none"
    /\ out' = Constructed("SecretFromKey", key, SecretFromKey(key).panic)
    /\ sk' = IF SecretFromKey(key).panic THEN NoSecret ELSE SecretFromKey(key).sk
    /\ skBase' = IF SecretFromKey(key).panic THEN "panic" ELSE "Key"
    /\ UNCHANGED <<skPath, pk, pkBase, pkPath, ret>>

\* a constructor has returned the Secret
HasSecret == skBase \in {"Seed", "Key"}

\* a constructor or Secret.Public has returned the Public
HasPublic == pkBase \in {"Key", "Public"}

CallSecretPublic ==
    /\ HasSecret /\ pkBase = "none" /\ ret.op = "none"
    /\ pk' = SecretPublic(sk)
    /\ pkBase' = "Public"
    /\ UNCHANGED <<sk, skBase, skPath, pkPath, out, ret>>

\* the record of a constructor called on key, an encoding that Key() gave:
\* data is the Key() of the object the constructor returned
Reconstructed(op, key, panic, again) ==
    [op |-> op, in |-> key, data |-> IF panic THEN <<>> ELSE again,
     res |-> IF panic THEN Panicked ELSE Returned(<<>>, TRUE)]

\* PublicFromKey(pk.Key()).Key()
CallPublicKeyAgain ==
    /\ HasPublic /\ ret.op = "none"
    /\ ret' = Reconstructed("PublicFromKey", PublicKey(pk),
                            PublicFromKey(PublicKey(pk)).panic,
                            PublicKey(PublicFromKey(PublicKey(pk)).pk))
    /\ UNCHANGED <<sk, skBase, skPath, pk, pkBase, pkPath, out>>

\* SecretFromKey(sk.Key()).Key()
CallSecretKeyAgain ==
    /\ HasSecret /\ ret.op = "none"
    /\ ret' = Reconstructed("SecretFromKey", SecretKey(sk),
                            SecretFromKey(SecretKey(sk)).panic,
                            SecretKey(SecretFromKey(SecretKey(sk)).sk))
    /\ UNCHANGED <<sk, skBase, skPath, pk, pkBase, pkPath, out>>

CallSecretFromSeed(seed) ==
    /\ out.op = "none"
    /\ out' = Constructed("SecretFromSeed", seed, SecretFromSeed(seed).panic)
    /\ sk' = IF SecretFromSeed(seed).panic THEN NoSecret ELSE SecretFromSeed(seed).sk
    /\ skBase' = IF SecretFromSeed(seed).panic THEN "panic" ELSE "Seed"
    /\ UNCHANGED <<skPath, pk, pkBase, pkPath, ret>>

\* the record of a call that returned the byte string data
Called(op, in, data) == [op |-> op, in |-> in, data |-> data, res |-> Returned(<<>>, TRUE)]

\* CallSecretDerive storing the child in the receiver
CallSecretDeriveInPlace(index, skey) ==
    /\ HasSecret /\ ret.op = "none"
    /\ ret' = Called("Secret.Derive", <<index, skey>>, SecretKey(SecretDerive(sk, index, skey)))
    /\ sk' = SecretDerive(sk, index, skey)
    /\ UNCHANGED <<skBase, skPath, pk, pkBase, pkPath, out>>

\* sk.Derive(index, skey).Key()
CallSecretDerive(index, skey) ==
    /\ HasSecret /\ ret.op = "none"
    /\ ret' = Called("Secret.Derive", <<index, skey>>, SecretKey(SecretDerive(sk, index, skey)))
    /\ UNCHANGED <<sk, skBase, skPath, pk, pkBase, pkPath, out>>

\* pk.Derive(index).Key()
CallPublicDerive(index) ==
    /\ HasPublic /\ ret.op = "none"
    /\ ret' = Called("Public.Derive", index, PublicKey(PublicDerive(pk, index)))
    /\ UNCHANGED <<sk, skBase, skPath, pk, pkBase, pkPath, out>>

CallSign(msg) ==
    /\ HasSecret /\ ret.op = "none"
    /\ ret' = Called("Sign", msg, Sign(sk, msg))
    /\ UNCHANGED <<sk, skBase, skPath, pk, pkBase, pkPath, out>>

CallVrfEval(x) ==
    /\ HasSecret /\ ret.op = "none"
    /\ ret' = VrfEvalCall(x, VrfEval(sk, x))
    /\ UNCHANGED <<sk, skBase, skPath, pk, pkBase, pkPath, out>>

\* the record of VrfEval(x) by the holder of the Secret, which gave e,
\* followed by VrfVerify(x, proof) under the Public A on the proof it returned
VrfEvalVerified(A, x, e) ==
    ByValue(e, [op |-> "VrfEval, VrfVerify", in |-> x, data |-> e.proof,
                res |-> IF e.hung THEN Hung ELSE VrfVerify(A, x, e.proof)])

\* y, proof = aliceSecret.VrfEval(x); alicePublic.VrfVerify(x, proof)
CallVrfEvalVerify(x) ==
    /\ HasSecret /\ pkBase = "Public" /\ ret.op = "none"
    /\ ret' = VrfEvalVerified(pk, x, VrfEval(sk, x))
    /\ UNCHANGED <<sk, skBase, skPath, pk, pkBase, pkPath, out>>

\* what HashToPointVartime is handed: among them <<4>> and <<0, 0>>, for
\* which both halves of the first sha512(ib) decompress to no point
HashInputs == Msgs \cup {<<4>>, <<5>>, <<0, 0>>}

\* the record of a call of HashToPointVartime that gave h
HashToPointCall(x, h) ==
    [op |-> "HashToPointVartime", in |-> x,
     data |-> IF h.returns THEN CompressPoint(h.point) ELSE <<>>,
     res |-> IF h.returns THEN Returned(<<>>, TRUE) ELSE Hung]

CallHashToPointVartime(x) ==
    /\ out.op = "none" /\ ret.op = "none"
    /\ ret' = HashToPointCall(x, HashToPointVartime(x))
    /\ UNCHANGED <<sk, skBase, skPath, pk, pkBase, pkPath, out>>

\* the four field elements of a Point
Coordinates(p) == <<p.X, p.Y, p.Z, p.T>>

\* PointNeg(&r, &pk.point) for a destination r: in is r before the call and
\* data is r after it
CallPointNeg(r) ==
    /\ HasPublic /\ ret.op = "none"
    /\ ret' = Called("PointNeg", Coordinates(r), Coordinates(PointNeg(r, pk.point)))
    /\ UNCHANGED <<sk, skBase, skPath, pk, pkBase, pkPath, out>>

\* signatures compress(s * B) || s made without a Secret, for s = 0, 1, 2,
\* l - 1 and the non-canonical l
CommitSigs ==
    {CompressPoint(ScalarMultBase(LEBytes(s))) \o LEBytes(s) : s \in {0, 1, 2, GroupL - 1, GroupL}}

UnitNext ==
    \/ \E seed \in SeedInputs : CallSecretFromSeed(seed)
    \/ \E key \in SecretKeyInputs : CallSecretFromKey(key)
    \/ \E key \in PublicKeyInputs : CallPublicFromKey(key)
    \/ CallSecretPublic
    \/ CallPublicKeyAgain
    \/ CallSecretKeyAgain
    \/ \E index \in Indices, skey \in Skeys : CallSecretDerive(index, skey)
    \/ \E index \in Indices : CallPublicDerive(index)
    \/ \E msg \in Msgs : CallSign(msg)
    \/ \E x \in Msgs : CallVrfEval(x)
    \/ \E x \in Msgs : CallVrfEvalVerify(x)
    \/ \E msg \in Msgs, sig \in FixedSigs \cup CommitSigs : DoVerify(msg, sig)
    \/ \E x \in Msgs, proof \in FixedProofs : DoVrfVerify(x, proof)
    \/ \E x \in HashInputs : CallHashToPointVartime(x)
    \/ \E r \in {pk.point, ZeroPoint, ExtendedZero} : CallPointNeg(r)

UnitSpec == Init /\ [][UnitNext]_vars

(***************************************************************************)
(* The for loop of HashToPointVartime (util.go 233-246), one step per      *)
(* candidate.  What SHA-512 and DecompressPoint make of a candidate is     *)
(* drawn at the start: out.in is the set of the candidates that            *)
(* decompress, candidate 2 * c + half being half 0 or 1 of sha512(ib) for  *)
(* ib[0] = c.  out.data is <<ib[0], half, laps>>: the counter, the half    *)
(* tried next, and how often the counter has wrapped from 255 to 0.        *)
(***************************************************************************)

\* the wraps of ib[0] that are counted
MaxLaps == 1

\* the candidates that may decompress: the first four and the last two
GoodChoices == {0, 1, 2, 3, 510, 511}

\* the call has not returned yet
Running == [kind |-> "running", y |-> ZeroBytes(Len256), valid |-> FALSE]

LoopInit ==
    /\ sk = NoSecret /\ skBase = "none" /\ skPath = <<>>
    /\ pk = NoPublic /\ pkBase = "none" /\ pkPath = <<>>
    /\ ret = NoCall
    /\ \E good \in SUBSET GoodChoices :
          out = [op |-> "HashToPointVartime", in |-> good, data |-> <<0, 0, 0>>, res |-> Running]

\* HashToPointStep returning when ib[0] wraps
HashToPointStepUntilWrap(c, half, laps) ==
    /\ out.res.kind = "running" /\ out.data = <<c, half, laps>>
    /\ out' = IF (2 * c + half) \in out.in \/ (c = 255 /\ half = 1)
                THEN [out EXCEPT !.res = Returned(<<>>, TRUE)]
              ELSE IF half = 0 THEN [out EXCEPT !.data = <<c, 1, laps>>]
              ELSE [out EXCEPT !.data = <<(c + 1) % 256, 0, laps>>]
    /\ UNCHANGED <<sk, skBase, skPath, pk, pkBase, pkPath, ret>>

\* if DecompressPoint(&p, &pb) { break }, for the first half and then for
\* the second; ib[0]++ after the second
HashToPointStep(c, half, laps) ==
    /\ out.res.kind = "running" /\ out.data = <<c, half, laps>>
    /\ out' = IF (2 * c + half) \in out.in
                THEN [out EXCEPT !.res = Returned(<<>>, TRUE)]
              ELSE IF half = 0 THEN [out EXCEPT !.data = <<c, 1, laps>>]
              ELSE [out EXCEPT !.data = <<(c + 1) % 256, 0,
                                          IF c = 255 /\ laps < MaxLaps THEN laps + 1 ELSE laps>>]
    /\ UNCHANGED <<sk, skBase, skPath, pk, pkBase, pkPath, ret>>

LoopNext == \E c \in 0..255, half \in 0..1, laps \in 0..MaxLaps : HashToPointStep(c, half, laps)

LoopSpec == LoopInit /\ [][LoopNext]_vars /\ WF_vars(LoopNext)

(***************************************************************************)
(* A derivation chain: sk0 = SecretFromSeed(s) and pk0 = sk0.Public(),     *)
(* then the same indices applied to both in lockstep, then one signature   *)
(* or VRF evaluation by the derived Secret, verified under the derived     *)
(* Public.                                                                 *)
(***************************************************************************)

\* derivations applied along a chain
MaxChain == 3

\* sk_k = sk_{k-1}.Derive(i_k, nil); pk_k = pk_{k-1}.Derive(i_k)
DoDeriveBoth(index) ==
    /\ KeysPhase /\ skBase = "Seed" /\ pkBase = "Public"
    /\ Len(skPath) < MaxChain /\ Len(pkPath) < MaxChain
    /\ sk' = SecretDerive(sk, index, Nil)
    /\ pk' = PublicDerive(pk, index)
    /\ skPath' = Append(skPath, <<index, Nil>>)
    /\ pkPath' = Append(pkPath, <<index>>)
    /\ UNCHANGED <<skBase, pkBase, out, ret>>

ChainNext ==
    \/ \E seed \in Seeds : DoSecretFromSeed(seed)
    \/ skPath = <<>> /\ DoSecretPublic
    \/ \E index \in Indices \cup {<<255>>} : DoDeriveBoth(index)
    \/ \E msg \in Msgs : pkBase = "Public" /\ DoSign(msg)
    \/ \E x \in Msgs : pkBase = "Public" /\ DoVrfEval(x)
    \/ \E msg \in Msgs : out.op = "Sign" /\ DoVerify(msg, out.data)
    \/ \E x \in Msgs : out.op = "VrfEval" /\ DoVrfVerify(x, out.data)

ChainSpec == Init /\ [][ChainNext]_vars

(***************************************************************************)
(* Properties                                                              *)
(***************************************************************************)

\* the Secret came from SecretFromSeed and the Public is its Public()
SeedKeys ==
    /\ skBase = "Seed" /\ skPath = <<>>
    /\ pkBase = "Public" /\ pkPath = <<>>

\* the verifier was handed the input and the output of the signer
SameCall == ret.in = out.in /\ ret.data = out.data

\* C1: for a Secret made from a seed and any message m, Verify of the
\* Secret's Public accepts (m, Sign(m))
SignVerifyRoundTrip ==
    (SeedKeys /\ out.op = "Sign" /\ ret.op = "Verify" /\ SameCall)
        => ret.res = Returned(<<>>, TRUE)

\* a signature was made and verified on the same message
SignVerifyRoundTripWitness ==
    /\ SeedKeys /\ out.op = "Sign" /\ ret.op = "Verify" /\ SameCall
    /\ Len(out.in) = MaxMsgLen
    /\ ret.res.valid

\* C2: for a Secret made from a seed and any input x, with (y, proof) =
\* VrfEval(x), VrfVerify of the Secret's Public returns (y, true) on (x, proof)
VrfRoundTrip ==
    (SeedKeys /\ out.op = "VrfEval" /\ out.res.kind = "return"
       /\ ret.op = "VrfVerify" /\ SameCall)
        => ret.res = Returned(out.res.y, TRUE)

\* a proof was made and verified on the same input, with a non-zero y
VrfRoundTripWitness ==
    /\ SeedKeys /\ out.op = "VrfEval" /\ out.res.kind = "return"
    /\ ret.op = "VrfVerify" /\ SameCall
    /\ ret.res.valid /\ ret.res.y = out.res.y /\ ret.res.y # ZeroBytes(Len256)

\* the indices of a derivation path
PathIndices(path) == [k \in 1..Len(path) |-> path[k][1]]

\* every derivation of the path is in public mode: Public.Derive, or
\* Secret.Derive with a nil skey
PublicMode(path) == \A k \in 1..Len(path) : Len(path[k]) = 1 \/ path[k][2] = Nil

\* the Public and the Secret descend from one seed by public-mode
\* derivations with the same indices
SameLineage ==
    /\ skBase = "Seed" /\ pkBase = "Public"
    /\ PublicMode(skPath)
    /\ PathIndices(pkPath) = PathIndices(skPath)

\* C3: the key of the Public of Secret.Derive(i, nil) equals the key of
\* Public.Derive(i) of the parent's Public
DerivationAgreement ==
    SameLineage => PublicKey(SecretPublic(sk)) = PublicKey(pk)

\* the Secret was derived with a nil skey and the Public, taken from the
\* parent, by Public.Derive
DerivationAgreementWitness ==
    /\ SameLineage
    /\ Len(skPath) = 1 /\ Len(pkPath) = 1 /\ Len(pkPath[1]) = 1
    /\ PublicKey(SecretPublic(sk)) = PublicKey(pk)

\* C4: VrfVerify returns (zeros, false) for every proof whose length is
\* not LenProof
VrfVerifyRejectsWrongLength ==
    (ret.op = "VrfVerify" /\ Len(ret.data) # LenProof)
        => ret.res = Returned(ZeroBytes(Len256), FALSE)

\* C5: Verify and VrfVerify return for every sig / proof of any length;
\* neither call panics
VerificationNeverPanics ==
    ret.op \in {"Verify", "VrfVerify"} => ret.res.kind # "panic"

\* C6: for a Secret made from a seed and messages m # m', Verify of the
\* Secret's Public rejects (m', Sign(m))
WrongMessageRejected ==
    (SeedKeys /\ out.op = "Sign" /\ ret.op = "Verify"
       /\ ret.data = out.data /\ ret.in # out.in)
        => ret.res = Returned(<<>>, FALSE)

\* a signature was verified on another message of the same length
WrongMessageRejectedWitness ==
    /\ SeedKeys /\ out.op = "Sign" /\ ret.op = "Verify"
    /\ ret.data = out.data /\ ret.in # out.in /\ Len(ret.in) = Len(out.in)
    /\ ~ret.res.valid

\* C7: for a Secret made from a seed and inputs x # x', VrfVerify of the
\* Secret's Public returns valid = false on (x', proof of x)
WrongInputRejected ==
    (SeedKeys /\ out.op = "VrfEval" /\ out.res.kind = "return"
       /\ ret.op = "VrfVerify" /\ ret.data = out.data /\ ret.in # out.in)
        => (ret.res.kind = "return" /\ ~ret.res.valid)

\* a proof was verified on another input of the same length
WrongInputRejectedWitness ==
    /\ SeedKeys /\ out.op = "VrfEval" /\ out.res.kind = "return"
    /\ ret.op = "VrfVerify" /\ ret.data = out.data
    /\ ret.in # out.in /\ Len(ret.in) = Len(out.in)
    /\ ret.res.kind = "return" /\ ~ret.res.valid

\* the scalar s of a Len512-byte signature
SigScalar(sig) == LEValue(Slice(sig, Len256, Len512))

\* C8: Verify returns false for every Len512-byte sig with one of the top
\* three bits of its last byte set, and for every one with s >= l
NonCanonicalRejected ==
    (ret.op = "Verify" /\ Len(ret.data) = Len512
       /\ (ret.data[Len512] \div 32 # 0 \/ SigScalar(ret.data) >= GroupL))
        => ret.res = Returned(<<>>, FALSE)

\* the signature of the message with s replaced by s + l, the top three
\* bits still clear, was rejected
NonCanonicalRejectedWitness ==
    /\ SeedKeys /\ out.op = "Sign" /\ ret.op = "Verify" /\ ret.in = out.in
    /\ ret.data = WithScalar(out.data, Len256, SigScalar(out.data) + GroupL)
    /\ ret.data[Len512] \div 32 = 0
    /\ ~ret.res.valid

\* 8 * p is the identity, computed by scalar multiplication
SmallOrder(p) == ToBytes(ScalarMultP2(8, p)) = ToBytes(ExtendedZero)

\* B_v = HashToPointVartime(A_s || x) of the verification in ret
RetBv == HashToPointVartime(PublicKey(pk) \o ret.in).point

\* V of the proof in ret
RetV == DecompressPoint(Copy(ZeroBytes(Len256), Slice(ret.data, 0, Len256)))

\* C9: VrfVerify returns valid = false for every proof with a decodable V
\* when 8 * A, 8 * V or 8 * B_v is the identity, whatever h and s are
SmallOrderRejected ==
    (ret.op = "VrfVerify" /\ Len(ret.data) >= Len512 /\ RetV.ok
       /\ (SmallOrder(pk.point) \/ SmallOrder(RetV.point) \/ SmallOrder(RetBv)))
        => (ret.res.kind = "return" /\ ~ret.res.valid)

\* the proof forged for the key of order 8 was rejected
SmallOrderRejectedWitness ==
    /\ ret.op = "VrfVerify" /\ ret.data = ForgedProof /\ ret.in = <<>>
    /\ pkBase = "Key" /\ pkPath = <<>> /\ PublicKey(pk) = <<108, 35>>
    /\ SmallOrder(pk.point) /\ ~SmallOrder(RetV.point) /\ ~SmallOrder(RetBv)
    /\ ret.res.kind = "return" /\ ~ret.res.valid

\* C10: whenever VrfVerify returns valid = false, the y it returns is all
\* zero bytes
ZeroResultOnReject ==
    (ret.op = "VrfVerify" /\ ret.res.kind = "return" /\ ~ret.res.valid)
        => ret.res.y = ZeroBytes(Len256)

\* a proof with canonical h and s and no small-order point was rejected by
\* the challenge comparison, after y's point 8 * V had been computed
ZeroResultOnRejectWitness ==
    /\ SeedKeys /\ out.op = "VrfEval" /\ ret.op = "VrfVerify" /\ ret.in = out.in
    /\ ret.data = WithScalar(out.data, Len512, (LEValue(Slice(out.data, Len512, LenProof)) + 1) % GroupL)
    /\ ~SmallOrder(pk.point) /\ ~SmallOrder(RetV.point) /\ ~SmallOrder(RetBv)
    /\ ret.res = Returned(ZeroBytes(Len256), FALSE)

\* the Ed25519 clamp: the low three bits are zero, bit 254 (the last but one
\* of the buffer) is set and bit 255 (the last) is zero
IsClamped(s) ==
    /\ s[1] % 8 = 0
    /\ (s[Len256] \div 64) % 2 = 1
    /\ s[Len256] \div 128 = 0

\* the Secret came from SecretFromSeed by at least one Derive
DerivedSecret == skBase = "Seed" /\ Len(skPath) >= 1

\* C11: the scalar of a Secret derived (by one or more Derive calls, with
\* any index and skey) from a seed-made Secret is clamped
DerivedScalarClamped == DerivedSecret => IsClamped(sk.scalar)

\* C11 (amended): the scalar of a derived Secret is the product of the
\* clamped blind and the parent scalar reduced modulo l: it is canonical
\* (below l), so bit 254 and bit 255 are both zero
DerivedScalarReduced ==
    DerivedSecret => (ValidScalar(sk.scalar) /\ sk.scalar[Len256] \div 64 = 0)

\* a derived Secret whose scalar is not a multiple of 8
DerivedScalarReducedWitness ==
    DerivedSecret /\ ValidScalar(sk.scalar) /\ sk.scalar[1] % 8 # 0

\* C12: for every input of Len256 or Len512 bytes that SecretFromSeed
\* accepts, the scalar of the Secret is clamped, and the Secret (scalar and
\* prefix) is the one SecretFromSeed makes of the first Len256 bytes alone
SeedClampInvariant ==
    (out.op = "SecretFromSeed" /\ out.res.kind = "return")
        => /\ IsClamped(sk.scalar)
           /\ sk = SecretFromSeed(Slice(out.in, 0, Len256)).sk

\* SecretFromSeed returned a Secret for a seed followed by bytes that are
\* not all zero
SeedClampInvariantWitness ==
    /\ out.op = "SecretFromSeed" /\ out.res.kind = "return"
    /\ Len(out.in) = Len512 /\ Slice(out.in, Len256, Len512) # ZeroBytes(Len256)
    /\ skBase = "Seed" /\ IsClamped(sk.scalar)

\* C13: for every Public P, PublicFromKey(P.Key()) does not abort and its
\* Key() is P.Key(); for every Secret S, SecretFromKey(S.Key()) does not
\* abort and its Key() is S.Key(), which is scalar || prefix
EncodingRoundTrip ==
    /\ (ret.op = "PublicFromKey" /\ ret.in = PublicKey(pk))
          => (ret.res.kind = "return" /\ ret.data = ret.in)
    /\ (ret.op = "SecretFromKey" /\ ret.in = SecretKey(sk))
          => /\ ret.res.kind = "return" /\ ret.data = ret.in
             /\ ret.in = sk.scalar \o sk.prefix

\* the Key() of a Public made from an encoding that is not canonical went
\* through PublicFromKey and Key() again
EncodingRoundTripWitness ==
    /\ out.op = "PublicFromKey" /\ pkBase = "Key" /\ out.in # PublicKey(pk)
    /\ ret.op = "PublicFromKey" /\ ret.in = PublicKey(pk) /\ ret.data = ret.in

\* some x of the parity sign has v * x^2 = u
OnCurveUV(sign, u, v) ==
    ByValue(<<sign, u, v>>,
            \E x \in 0..(FieldP - 1) : x % 2 = sign /\ FeMul(FeSquare(x), v) = u)

\* b is the encoding of a point: its y, the sign bit dropped, and some x of
\* the parity the sign bit asks for are on the curve
\* -x^2 + y^2 = 1 + d * x^2 * y^2, that is (d * y^2 + 1) * x^2 = y^2 - 1
OnCurveY(b, y) ==
    OnCurveUV(b[Len256] \div 128, FeSub(FeSquare(y), 1), FeAdd(FeMul(CurveD, FeSquare(y)), 1))

OnCurve(b) == OnCurveY(b, (LEValue(b) % (2 ^ (8 * Len256 - 1))) % FieldP)

\* the byte string b is not a well-formed input of the constructor op
Malformed(op, b) ==
    CASE op = "PublicFromKey" -> Len(b) # Len256 \/ ~OnCurve(b)
      [] op = "SecretFromKey" -> Len(b) # Len512
      [] op = "SecretFromSeed" -> Len(b) # Len256 /\ Len(b) # Len512

\* C14: PublicFromKey aborts exactly when the key is not Len256 bytes or is
\* the encoding of no curve point, SecretFromKey exactly when the key is not
\* Len512 bytes, SecretFromSeed exactly when the seed is neither Len256 nor
\* Len512 bytes; an aborted call returns no object and every other call
\* returns one
MalformedInputAborts ==
    (out.op \in {"PublicFromKey", "SecretFromKey", "SecretFromSeed"} /\ ret.op = "none")
        => /\ (out.res.kind = "panic") <=> Malformed(out.op, out.in)
           /\ out.res.kind \in {"panic", "return"}
           /\ out.op = "PublicFromKey" =>
                 IF out.res.kind = "panic" THEN pkBase = "panic" /\ pk = NoPublic
                 ELSE pkBase = "Key"
           /\ out.op # "PublicFromKey" =>
                 IF out.res.kind = "panic" THEN skBase = "panic" /\ sk = NoSecret
                 ELSE skBase \in {"Key", "Seed"}

\* PublicFromKey aborted on Len256 bytes that are the encoding of no point
MalformedInputAbortsWitness ==
    /\ out.op = "PublicFromKey" /\ Len(out.in) = Len256 /\ ~OnCurve(out.in)
    /\ out.res.kind = "panic" /\ pkBase = "panic"

RefMul(a, b) == (a * b) % FieldP

\* z ^ e in the field
RECURSIVE RefPow(_, _)
RefPow(z, e) ==
    IF e = 0 THEN 1
    ELSE ((IF e % 2 = 1 THEN z ELSE 1) * RefPow((z * z) % FieldP, e \div 2)) % FieldP

\* the sum of p and q on -x^2 + y^2 = 1 + d * x^2 * y^2, for a = Z1 * Z2,
\* c = X1 * X2, d = Y1 * Y2 and e = CurveD * c * d:
\* X3 = a * (a^2 - e) * ((X1 + Y1) * (X2 + Y2) - c - d),
\* Y3 = a * (a^2 + e) * (d + c), Z3 = (a^2 - e) * (a^2 + e)
RefAddE(p, q, a, c, d, e) ==
    << RefMul(RefMul(a, (RefMul(a, a) + FieldP - e) % FieldP),
              (RefMul((p[1] + p[2]) % FieldP, (q[1] + q[2]) % FieldP) + 2 * FieldP - c - d) % FieldP),
       RefMul(RefMul(a, (RefMul(a, a) + e) % FieldP), (d + c) % FieldP),
       RefMul((RefMul(a, a) + FieldP - e) % FieldP, (RefMul(a, a) + e) % FieldP) >>

RefAddCD(p, q, a, c, d) == RefAddE(p, q, a, c, d, RefMul(CurveD, RefMul(c, d)))

RefAdd(p, q) ==
    ByValue(<<p, q>>,
            RefAddCD(p, q, RefMul(p[3], q[3]), RefMul(p[1], q[1]), RefMul(p[2], q[2])))

\* acc + k * p by doubling and adding
RECURSIVE RefMultAcc(_, _, _)
RefMultAcc(k, p, acc) ==
    ByValue(<<p, acc>>,
            IF k = 0 THEN acc
            ELSE RefMultAcc(k \div 2, RefAdd(p, p), IF k % 2 = 1 THEN RefAdd(acc, p) ELSE acc))

RefMult(k, p) == RefMultAcc(k, p, <<0, 1, 1>>)

\* p and q are the same point
RefSame(p, q) ==
    /\ RefMul(p[1], q[3]) = RefMul(q[1], p[3])
    /\ RefMul(p[2], q[3]) = RefMul(q[2], p[3])

\* the projective point of an extended point
RefPoint(P) == <<P.X, P.Y, P.Z>>

\* the encoding of p, i being the inverse of Z: y, and the parity of x in
\* the top bit
RefEncodeInv(p, i) ==
    LEBytes(RefMul(p[2], i) + (2 ^ (8 * Len256 - 1)) * (RefMul(p[1], i) % 2))

RefEncode(p) == ByValue(p, RefEncodeInv(p, RefPow(p[3], FieldP - 2)))

\* the little-endian value of a byte string, modulo l
RECURSIVE RefModL(_)
RefModL(b) == IF b = <<>> THEN 0 ELSE (b[1] + 256 * RefModL(Tail(b))) % GroupL

RefB == RefPoint(BasePoint)

\* R_s || s for s = (h * a + r) mod l
RefSignResponse(a, r, Rs, h) == Rs \o LEBytes((h * (a % GroupL) + r) % GroupL)

\* h = SHA-512(R_s || A_s || msg) mod l
RefSignChallenge(a, As, msg, r, Rs) ==
    ByValue(<<As, Rs>>, RefSignResponse(a, r, Rs, RefModL(Sha512(Rs \o As \o msg))))

\* r = SHA-512(p || msg) mod l, R_s = compress(r * B), A_s = compress(a * B)
RefSign(a, p, msg) ==
    RefSignChallenge(a, RefEncode(RefMult(a, RefB)), msg, RefModL(Sha512(p \o msg)),
                     RefEncode(RefMult(RefModL(Sha512(p \o msg)), RefB)))

\* s * B = R + h * A for h = SHA-512(R_s || A_s || msg) mod l
RefVerify(A, msg, Rs, s) ==
    RefSame(RefMult(s, RefB),
            RefAdd(RefPoint(FromBytes(Rs).point),
                   RefMult(RefModL(Sha512(Rs \o RefEncode(A) \o msg)), A)))

\* the signature is Len512 bytes with the top three bits clear, an R_s that
\* is the encoding of a point and an s below l
RefWellFormed(sig) ==
    /\ Len(sig) = Len512 /\ sig[Len512] < 32
    /\ FromBytes(Slice(sig, 0, Len256)).ok
    /\ LEValue(Slice(sig, Len256, Len512)) < GroupL

\* C17: Sign returns R_s || s of the EdDSA reference computation on
\* (a, p, msg): r = SHA-512(p || msg) mod l, R_s = compress(r * B),
\* A_s = compress(a * B), h = SHA-512(R_s || A_s || msg) mod l,
\* s = (h * a + r) mod l; and Verify accepts a well-formed signature exactly
\* when s * B = R + h * A for the h recomputed from the same inputs in the
\* same order
SignIsReference ==
    /\ out.op = "Sign" => out.data = RefSign(LEValue(sk.scalar), sk.prefix, out.in)
    /\ ret.op = "Verify" =>
          ret.res.valid =
              (/\ RefWellFormed(ret.data)
               /\ RefVerify(RefPoint(pk.point), ret.in, Slice(ret.data, 0, Len256),
                            LEValue(Slice(ret.data, Len256, Len512))))

\* Sign returned the reference signature, and the Public of the signer
\* has verified it on the signed message
SignIsReferenceWitness ==
    /\ SeedKeys /\ out.op = "Sign" /\ ret.op = "Verify" /\ ret.in = out.in
    /\ ret.data = out.data /\ ret.res.valid
    /\ out.data = RefSign(LEValue(sk.scalar), sk.prefix, out.in)

\* C18: HashToPointVartime returns if and only if one of the 512
\* candidates decompresses: with none the call never returns, ib[0] wraps
\* from 255 to 0 and the same candidates are tried again; with one, it
\* returns
HashToPointTerminates ==
    /\ [](out.in = {} => out.res.kind = "running")
    /\ (out.in # {}) ~> (out.res.kind = "return")

\* no candidate decompresses, ib[0] has wrapped to 0 and the loop is
\* trying the first candidate again
HashToPointTerminatesWitness ==
    /\ out.op = "HashToPointVartime" /\ out.in = {} /\ out.res.kind = "running"
    /\ out.data = <<0, 0, 1>>

\* candidate j of HashToPointVartime(x): half j % 2 of sha512(ib) for
\* ib = sha512(x) with ib[0] = j \div 2
RefCandidate(x, j) ==
    Slice(Sha512([Sha512(x) EXCEPT ![1] = j \div 2]),
          (j % 2) * Len256, (j % 2) * Len256 + Len256)

\* the first candidate of x from j on that is the encoding of a point, 512
\* if there is none
RECURSIVE RefFirst(_, _)
RefFirst(x, j) ==
    IF j = 512 THEN 512
    ELSE IF OnCurve(RefCandidate(x, j)) THEN j
    ELSE RefFirst(x, j + 1)

\* the point of the curve with this y and an x of the parity sign
RefDecodeY(sign, y, u, v) ==
    ByValue(<<sign, u, v>>,
            << CHOOSE x \in 0..(FieldP - 1) : x % 2 = sign /\ FeMul(FeSquare(x), v) = u,
               y, 1 >>)

\* the point the encoding b stands for
RefDecode(b) ==
    LET y == (LEValue(b) % (2 ^ (8 * Len256 - 1))) % FieldP
    IN RefDecodeY(b[Len256] \div 128, y, FeSub(FeSquare(y), 1),
                  FeAdd(FeMul(CurveD, FeSquare(y)), 1))

\* data is the encoding of 8 * P for candidate j of x, and l times the
\* point of data is the identity
RefHashToPoint(x, data, j) ==
    /\ j < 512
    /\ data = RefEncode(RefMult(8, RefDecode(RefCandidate(x, j))))
    /\ RefSame(RefMult(GroupL, RefDecode(data)), <<0, 1, 1>>)

\* C19: when HashToPointVartime returns, its result is 8 * P for the first
\* candidate P that decompresses, in the order counter 0 first half,
\* counter 0 second half, counter 1 first half, ...; the result lies in the
\* subgroup of prime order l
HashToPointResult ==
    (ret.op = "HashToPointVartime" /\ ret.res.kind = "return")
        => RefHashToPoint(ret.in, ret.data, RefFirst(ret.in, 0))

\* HashToPointVartime returned 8 * P for a candidate found after the
\* counter had been incremented
HashToPointResultWitness ==
    /\ ret.op = "HashToPointVartime" /\ ret.res.kind = "return"
    /\ RefFirst(ret.in, 0) >= 2
    /\ ret.data = RefEncode(RefMult(8, RefDecode(RefCandidate(ret.in, RefFirst(ret.in, 0)))))

\* C20: after PointNeg(r, p), r is the point -p in all four coordinates,
\* for every destination r: X / Z = -x, Y / Z = y and T = X * Y / Z, a
\* freshly zeroed destination included
PointNegNegates ==
    ret.op = "PointNeg"
        => /\ ret.data[3] # 0
           /\ FeMul(ret.data[1], pk.point.Z) = FeMul(FeNeg(pk.point.X), ret.data[3])
           /\ FeMul(ret.data[2], pk.point.Z) = FeMul(pk.point.Y, ret.data[3])
           /\ FeMul(ret.data[4], ret.data[3]) = FeMul(ret.data[1], ret.data[2])

\* the Public is the one PublicFromKey makes of the encoding of the
\* identity point
IdentityKey == pkBase = "Key" /\ out.op = "PublicFromKey" /\ out.in = <<1, 0>>

\* sig is compress(s * B) || s for a canonical s
CommitSig(sig) ==
    /\ Len(sig) = Len512
    /\ LEValue(Slice(sig, Len256, Len512)) < GroupL
    /\ Slice(sig, 0, Len256) = RefEncode(RefMult(LEValue(Slice(sig, Len256, Len512)), RefB))

\* C21: Verify has no small-order rejection: under a Public of any order it
\* accepts exactly the well-formed signatures with s * B = R + h * A, and
\* under the Public decoded from the encoding of the identity it accepts
\* compress(s * B) || s for every canonical s and every message
NoSmallOrderRejection ==
    ret.op = "Verify" =>
        /\ ret.res.kind = "return"
        /\ (IdentityKey /\ CommitSig(ret.data)) => ret.res.valid
        /\ ret.res.valid <=>
              (/\ RefWellFormed(ret.data)
               /\ RefVerify(RefPoint(pk.point), ret.in, Slice(ret.data, 0, Len256),
                            LEValue(Slice(ret.data, Len256, Len512))))

\* the Public of the identity has accepted compress((l - 1) * B) || l - 1
\* on a message that is not empty
NoSmallOrderRejectionWitness ==
    /\ IdentityKey /\ ret.op = "Verify" /\ ret.in # <<>>
    /\ CommitSig(ret.data) /\ LEValue(Slice(ret.data, Len256, Len512)) = GroupL - 1
    /\ ret.res.valid

\* the Ed25519 clamp of the value b
RefClamp(b) ==
    ((b - (b % 8)) % (2 ^ (8 * Len256 - 2))) + 2 ^ (8 * Len256 - 2)

\* the child scalar clamp(blind) * a mod l, blind being the KDF output
\* SHA3-512(key || index) mod l
RefChildScalar(a, key, index) ==
    LEBytes((RefClamp(RefModL(Sha3_512(key \o index))) * (a % GroupL)) % GroupL)

\* the KDF key of the mode: SHA3-512(public constant || A_s) when there is
\* no skey, SHA3-512(secret constant || scalar || skey) when there is one
RefDerivationKey(scalar, skey) ==
    IF skey = Nil
      THEN Sha3_512(IndexPublic \o RefEncode(RefMult(LEValue(scalar), RefB)))
      ELSE Sha3_512(IndexSecret \o scalar \o skey)

\* C22: Secret.Derive(index, skey) uses the public blind KDF_public(A_s,
\* index) exactly when skey is nil, and then its child has the key of
\* Public.Derive(index); an skey that is empty but not nil selects the
\* secret mode, keyed by the parent scalar, like every other skey
DeriveModeByNil ==
    ret.op = "Secret.Derive" =>
        /\ Slice(ret.data, 0, Len256)
              = RefChildScalar(LEValue(sk.scalar), RefDerivationKey(sk.scalar, ret.in[2]),
                               ret.in[1])
        /\ ret.in[2] = Nil =>
              RefEncode(RefMult(LEValue(Slice(ret.data, 0, Len256)), RefB))
                  = PublicKey(PublicDerive(SecretPublic(sk), ret.in[1]))

\* Derive with an empty skey has returned a child whose Public is not the
\* one Public.Derive makes with the same index
DeriveModeByNilWitness ==
    /\ ret.op = "Secret.Derive" /\ ret.in[2] = <<>> /\ skBase = "Seed"
    /\ Slice(ret.data, 0, Len256)
          = RefChildScalar(LEValue(sk.scalar), Sha3_512(IndexSecret \o sk.scalar), ret.in[1])
    /\ RefEncode(RefMult(LEValue(Slice(ret.data, 0, Len256)), RefB))
          # PublicKey(PublicDerive(SecretPublic(sk), ret.in[1]))

\* C23: SecretFromKey does not validate the scalar, so for a Secret built from
\* a 64-byte encoding whose scalar is 0 mod l, Public() is the identity point
\* (encoded y = 1, x = 0) and, for every input x, VrfVerify under that Public
\* returns (zeros, false) on the proof that VrfEval of the Secret produced
ZeroScalarVrfRejected ==
    (/\ ret.op = "VrfEval, VrfVerify"
     /\ out.op = "SecretFromKey"
     /\ LEValue(sk.scalar) % GroupL = 0)
    => /\ pkBase = "Public"
       /\ RefSame(<<pk.point.X, pk.point.Y, pk.point.Z>>, <<0, 1, 1>>)
       /\ PublicKey(pk) = <<1, 0>>
       /\ ret.data = VrfEval(sk, ret.in).proof
       /\ ret.res = Returned(ZeroBytes(Len256), FALSE)

\* the proof of a Secret whose scalar is l itself has been verified
ZeroScalarVrfRejectedWitness ==
    /\ ret.op = "VrfEval, VrfVerify"
    /\ out.op = "SecretFromKey"
    /\ LEValue(sk.scalar) = GroupL
    /\ ret.in = <<1>>
    /\ Len(ret.data) = LenProof
    /\ ret.res = Returned(ZeroBytes(Len256), FALSE)

\* the Secret and the Public of a chain: both descend from one seed by the
\* same indices, the Secret by Derive(i, nil) and the Public by Derive(i)
InChain == SameLineage /\ Len(pkPath) = Len(skPath)

\* the V of the proof of VrfEval is the identity: as the scalar is non-zero
\* mod l and Bv = 8 * P, this is the case where hashToPoint(As || x) gave
\* the identity, which the mixing function can produce within its two bytes
DegenerateHash == Slice(out.data, 0, Len256) = <<1, 0>>

ChainSignedWitness ==
    /\ InChain /\ Len(skPath) = MaxChain
    /\ out.op = "Sign" /\ ret.op = "Verify" /\ SameCall /\ ret.res.valid

=============================================================================
